---- MODULE Spec2Model ----
(***************************************************************************)
(* A model of kenpom.py: the KenPomParser row extractor (the handlers that *)
(* HTMLParser.feed calls), the _create_teams record builder and the Team   *)
(* dataclass with its derived properties.                                  *)
(***************************************************************************)
EXTENDS Integers, Sequences, FiniteSets, TLC

\* ------------------------------------------------------------------------
\* Bounds of the model
\* ------------------------------------------------------------------------

\* Text fragments of one document (two full rows need 2 * 22 of them).
MaxText == 45

\* Rows of one argument of _create_teams.
MaxRows == 2

\* Attribute assignments to one Team.
MaxAssign == 2

\* ------------------------------------------------------------------------
\* Python strings and the built-ins int(), float(), str.split, str.join
\* ------------------------------------------------------------------------
\* A token is a string; Len, Head, Tail, SubSeq and \o act on its characters.
\* Tokens are over ASCII: the digits, sign, point, exponent, underscore and
\* whitespace rules below are those of int() and float() on ASCII text.

Chr(s, k) == SubSeq(s, k, k)

Digits == <<"0", "1", "2", "3", "4", "5", "6", "7", "8", "9">>

IsDigit(c) == \E k \in 1..10 : Digits[k] = c

DigitVal(c) == (CHOOSE k \in 1..10 : Digits[k] = c) - 1

\* str.isspace for ASCII
IsSpace(c) == c \in {" ", "\t", "\n", "\r", "\f"}

RECURSIVE LStrip(_)
LStrip(s) == IF Len(s) > 0 /\ IsSpace(Head(s)) THEN LStrip(Tail(s)) ELSE s

RECURSIVE RStrip(_)
RStrip(s) ==
    IF Len(s) > 0 /\ IsSpace(Chr(s, Len(s)))
    THEN RStrip(SubSeq(s, 1, Len(s) - 1))
    ELSE s

\* str.strip()
Strip(s) == RStrip(LStrip(s))

\* The first place of the character c in s, 0 when there is none (str.find).
RECURSIVE FindFrom(_, _, _)
FindFrom(s, c, k) ==
    IF k > Len(s) THEN 0
    ELSE IF Chr(s, k) = c THEN k
    ELSE FindFrom(s, c, k + 1)

Find(s, c) == FindFrom(s, c, 1)

\* str.split(sep) for a one-character separator: every occurrence splits,
\* and empty pieces are kept.
RECURSIVE Split(_, _)
Split(s, sep) ==
    LET k == Find(s, sep)
    IN  IF k = 0 THEN <<s>>
        ELSE <<SubSeq(s, 1, k - 1)>> \o Split(SubSeq(s, k + 1, Len(s)), sep)

\* A run of digits in which single underscores may stand between digits.
DigitPart(s) ==
    /\ Len(s) > 0
    /\ IsDigit(Head(s))
    /\ IsDigit(Chr(s, Len(s)))
    /\ \A k \in 1..Len(s) : IsDigit(Chr(s, k)) \/ Chr(s, k) = "_"
    /\ \A k \in 1..(Len(s) - 1) : ~(Chr(s, k) = "_" /\ Chr(s, k + 1) = "_")

\* The digits of a digit part, underscores removed.
RECURSIVE Plain(_)
Plain(s) ==
    IF Len(s) = 0 THEN ""
    ELSE IF Head(s) = "_" THEN Plain(Tail(s))
    ELSE Head(s) \o Plain(Tail(s))

\* The number a string of digits denotes (0 for the empty string).
RECURSIVE Num(_)
Num(s) ==
    IF Len(s) = 0 THEN 0
    ELSE 10 * Num(SubSeq(s, 1, Len(s) - 1)) + DigitVal(Chr(s, Len(s)))

HasSign(s) == Len(s) > 0 /\ Head(s) \in {"+", "-"}
Unsigned(s) == IF HasSign(s) THEN Tail(s) ELSE s
IsNeg(s) == Len(s) > 0 /\ Head(s) = "-"

\* int(s) returns (it raises ValueError otherwise).
IntOK(s) == DigitPart(Unsigned(Strip(s)))

\* int(s)
IntValue(s) ==
    LET b == Strip(s)
        n == Num(Plain(Unsigned(b)))
    IN  IF IsNeg(b) THEN 0 - n ELSE n

Lower(c) ==
    CASE c = "I" -> "i" [] c = "N" -> "n" [] c = "F" -> "f" [] c = "A" -> "a"
      [] c = "T" -> "t" [] c = "Y" -> "y" [] c = "E" -> "e" [] OTHER -> c

RECURSIVE LowerStr(_)
LowerStr(s) == IF Len(s) = 0 THEN "" ELSE Lower(Head(s)) \o LowerStr(Tail(s))

\* The place of the exponent mark in an unsigned float literal, 0 if none.
ExpAt(u) == Find(LowerStr(u), "e")

Mantissa(u) == IF ExpAt(u) = 0 THEN u ELSE SubSeq(u, 1, ExpAt(u) - 1)
Exponent(u) == IF ExpAt(u) = 0 THEN "" ELSE SubSeq(u, ExpAt(u) + 1, Len(u))

IntDigits(m) == IF Find(m, ".") = 0 THEN m ELSE SubSeq(m, 1, Find(m, ".") - 1)
FracDigits(m) == IF Find(m, ".") = 0 THEN "" ELSE SubSeq(m, Find(m, ".") + 1, Len(m))

\* digitpart ["." [digitpart]] | "." digitpart
MantissaOK(m) ==
    IF Find(m, ".") = 0 THEN DigitPart(m)
    ELSE /\ IntDigits(m) = "" \/ DigitPart(IntDigits(m))
         /\ FracDigits(m) = "" \/ DigitPart(FracDigits(m))
         /\ ~(IntDigits(m) = "" /\ FracDigits(m) = "")

\* float(s) returns (it raises ValueError otherwise).
FloatOK(s) ==
    LET u == Unsigned(Strip(s))
    IN  \/ LowerStr(u) \in {"inf", "infinity", "nan"}
        \/ /\ MantissaOK(Mantissa(u))
           /\ ExpAt(u) = 0 \/ DigitPart(Unsigned(Exponent(u)))

\* A decimal value mant * 10^e10 in lowest terms: mant has no trailing zero.
RECURSIVE Normal(_, _)
Normal(mant, e10) ==
    IF mant = 0 THEN [mant |-> 0, e10 |-> 0]
    ELSE IF mant % 10 = 0 THEN Normal(mant \div 10, e10 + 1)
    ELSE [mant |-> mant, e10 |-> e10]

\* float(s), as the decimal value the literal denotes.  Two literals get the
\* same value exactly when they denote the same number (0.0 == -0.0).
FloatValue(s) ==
    LET b == Strip(s)
        u == Unsigned(b)
        m == Mantissa(u)
        x == Exponent(u)
        xv == IF IsNeg(x) THEN 0 - Num(Plain(Unsigned(x))) ELSE Num(Plain(Unsigned(x)))
        n == Normal(Num(Plain(IntDigits(m)) \o Plain(FracDigits(m))),
                    xv - Len(Plain(FracDigits(m))))
    IN  IF LowerStr(u) \in {"inf", "infinity"}
        THEN [kind |-> "inf", neg |-> IsNeg(b), mant |-> 0, e10 |-> 0]
        ELSE IF LowerStr(u) = "nan"
        THEN [kind |-> "nan", neg |-> FALSE, mant |-> 0, e10 |-> 0]
        ELSE [kind |-> "num", neg |-> IsNeg(b) /\ n.mant # 0,
              mant |-> n.mant, e10 |-> n.e10]

\* A Python value with its type, as str.join looks at it.
PyInt(n) == [type |-> "int", val |-> n]

\* sep.join(items): TypeError unless every item is a str.
RECURSIVE Joined(_, _)
Joined(sep, items) ==
    IF Len(items) = 0 THEN ""
    ELSE IF Len(items) = 1 THEN items[1].val
    ELSE items[1].val \o sep \o Joined(sep, Tail(items))

str_join(sep, items) ==
    IF \A k \in 1..Len(items) : items[k].type = "str"
    THEN [raised |-> "", value |-> Joined(sep, items)]
    ELSE [raised |-> "TypeError", value |-> ""]

\* ------------------------------------------------------------------------
\* KenPomParser
\* ------------------------------------------------------------------------

\* Token count that handle_endtag requires of a row.
RowWidth == 22

\* Tag names the tokenizer reports; only 'tr' is looked at by the handlers.
Tags == {"tr", "td"}

VARIABLES
    row,      \* self.row: None, or the list of tokens of the open row
    rows,     \* self.rows: the rows kept so far
    nText,    \* number of text fragments of the document fed so far
    status,   \* "ok" while feed() runs, the exception's name once one is raised
    lastEv,   \* the event handled last, with what it found in self.row
    watch,    \* history: one text fragment that is followed through the run
    lost      \* history: the watched fragment was in a buffer a 'tr' open replaced

pvars == <<row, rows, nText, status, lastEv, watch, lost>>

\* No fragment is followed.
NoWatch == 0 - 1

\* self.row is None or a list; the two are kept apart by isList.
None == [isList |-> FALSE, items |-> <<>>]
List(items) == [isList |-> TRUE, items |-> items]

\* The content of the k-th text fragment of the document.  Fragments are
\* kept distinct, so that where a token ends up can be read off its value.
Text(k) == k

\* What a handler found in self.row when it was called: the length of the
\* list, or -1 for None.
Found(r) == IF r.isList THEN Len(r.items) ELSE -1

Event(kind, tag) == [kind |-> kind, tag |-> tag, found |-> Found(row)]

\* The list self.row holds the token tok.
Holds(r, tok) == r.isList /\ \E k \in 1..Len(r.items) : r.items[k] = tok

\* KenPomParser.__init__
ParserInit ==
    /\ row = None
    /\ rows = <<>>
    /\ nText = 0
    /\ status = "ok"
    /\ lastEv = [kind |-> "init", tag |-> "", found |-> -1]
    /\ lost = FALSE

\* handle_starttag as it would be if an open row were kept.
M_handle_starttag_keep(tag) ==
    /\ status = "ok"
    /\ lastEv' = Event("starttag", tag)
    /\ row' = IF tag = "tr" /\ ~row.isList THEN List(<<>>) ELSE row
    /\ lost' = (lost \/ (tag = "tr" /\ Holds(row, watch)))
    /\ UNCHANGED <<rows, nText, status, watch>>

\* KenPomParser.handle_starttag
handle_starttag(tag) ==
    /\ status = "ok"
    /\ lastEv' = Event("starttag", tag)
    /\ row' = IF tag = "tr" THEN List(<<>>) ELSE row
    /\ lost' = (lost \/ (tag = "tr" /\ Holds(row, watch)))
    /\ UNCHANGED <<rows, nText, status, watch>>

\* handle_endtag as it would be with len(self.row) >= 22.
M_handle_endtag_atleast(tag) ==
    /\ status = "ok"
    /\ lastEv' = Event("endtag", tag)
    /\ IF tag = "tr"
       THEN IF ~row.isList
            THEN /\ status' = "TypeError"
                 /\ UNCHANGED <<row, rows, nText, watch, lost>>
            ELSE /\ rows' = IF Len(row.items) >= RowWidth
                            THEN Append(rows, Tail(row.items))
                            ELSE rows
                 /\ row' = None
                 /\ UNCHANGED <<nText, status, watch, lost>>
       ELSE UNCHANGED <<row, rows, nText, status, watch, lost>>

\* handle_endtag as it would be with self.rows.append(self.row).
M_handle_endtag_keepfirst(tag) ==
    /\ status = "ok"
    /\ lastEv' = Event("endtag", tag)
    /\ IF tag = "tr"
       THEN IF ~row.isList
            THEN /\ status' = "TypeError"
                 /\ UNCHANGED <<row, rows, nText, watch, lost>>
            ELSE /\ rows' = IF Len(row.items) = RowWidth
                            THEN Append(rows, row.items)
                            ELSE rows
                 /\ row' = None
                 /\ UNCHANGED <<nText, status, watch, lost>>
       ELSE UNCHANGED <<row, rows, nText, status, watch, lost>>

\* KenPomParser.handle_endtag.  len(self.row) raises TypeError when self.row
\* is None; the exception leaves feed() and no later event is handled.
handle_endtag(tag) ==
    /\ status = "ok"
    /\ lastEv' = Event("endtag", tag)
    /\ IF tag = "tr"
       THEN IF ~row.isList
            THEN /\ status' = "TypeError"
                 /\ UNCHANGED <<row, rows, nText, watch, lost>>
            ELSE /\ rows' = IF Len(row.items) = RowWidth
                            THEN Append(rows, Tail(row.items))
                            ELSE rows
                 /\ row' = None
                 /\ UNCHANGED <<nText, status, watch, lost>>
       ELSE UNCHANGED <<row, rows, nText, status, watch, lost>>

\* KenPomParser.handle_data, called with the next text fragment.
handle_data(data) ==
    /\ status = "ok"
    /\ nText < MaxText
    /\ lastEv' = Event("data", "")
    /\ nText' = nText + 1
    /\ row' = IF row.isList THEN List(Append(row.items, data)) ELSE row
    /\ UNCHANGED <<rows, status, watch, lost>>

\* ------------------------------------------------------------------------
\* Team and _create_teams
\* ------------------------------------------------------------------------

VARIABLES
    team_data,  \* the argument of _create_teams: a list of rows of tokens
    i,          \* the place in team_data of the row the loop takes next
    teams,      \* the local dict teams: a function from names to Teams
    result,     \* how the call ended: not yet, a returned dict, an exception
    recRead     \* what reading .record of a returned Team gave the caller

bvars == <<team_data, i, teams, result, recRead>>

\* Team(rank, name, conference, wins, losses, ...): the dataclass's fields.
Team(rank, name, conference, wins, losses, efficiency, offense, defense, tempo, luck, opponent_efficiency, opponent_offense, opponent_defense, nonconference_opponent_efficiency) ==
    [rank |-> rank, name |-> name, conference |-> conference,
     wins |-> wins, losses |-> losses, efficiency |-> efficiency,
     offense |-> offense, defense |-> defense, tempo |-> tempo, luck |-> luck,
     opponent_efficiency |-> opponent_efficiency,
     opponent_offense |-> opponent_offense,
     opponent_defense |-> opponent_defense,
     nonconference_opponent_efficiency |-> nonconference_opponent_efficiency]

\* The properties of Team.
Team_d(self) == self.defense
Team_e(self) == self.efficiency
Team_l(self) == self.losses
Team_nc_o_e(self) == self.nonconference_opponent_efficiency
Team_o(self) == self.offense
\* o_d as it would be with the body of o_o copied.
M_Team_o_d(self) == self.opponent_offense

Team_o_d(self) == self.opponent_defense
Team_o_e(self) == self.opponent_efficiency
Team_o_o(self) == self.opponent_offense
Team_t(self) == self.tempo
Team_w(self) == self.wins

\* Team.record: '-'.join((self.wins, self.losses)), on the ints that
\* _create_teams stores in wins and losses.
Team_record(self) == str_join("-", <<PyInt(self.wins), PyInt(self.losses)>>)

\* The number of targets of the for statement's tuple.
RowTargets == 21

\* The row of team_data can be taken through the loop body without an
\* exception: the unpacking of the row, the unpacking of rec.split('-'),
\* and the int() and float() calls of lines 160-162.
RowParses(r) ==
    /\ Len(r) = RowTargets
    /\ Len(Split(r[4], "-")) = 2
    /\ IntOK(r[1])
    /\ IntOK(Split(r[4], "-")[1])
    /\ IntOK(Split(r[4], "-")[2])
    /\ \A k \in {5, 6, 8, 10, 12, 14, 16, 18, 20} : FloatOK(r[k])

\* RowTeam as it would be with the targets o and d exchanged.
M_RowTeam_swapped(r) ==
    LET rec == Split(r[4], "-")
    IN  Team(IntValue(r[1]), r[2], r[3], IntValue(rec[1]), IntValue(rec[2]),
             FloatValue(r[5]), FloatValue(r[8]), FloatValue(r[6]),
             FloatValue(r[10]), FloatValue(r[12]), FloatValue(r[14]),
             FloatValue(r[16]), FloatValue(r[18]), FloatValue(r[20]))

\* The Team the loop body builds of a row (targets counted from 1; the
\* targets named _ are r[7], r[9], ..., r[21]).
RowTeam(r) ==
    LET rec == Split(r[4], "-")
    IN  Team(IntValue(r[1]), r[2], r[3], IntValue(rec[1]), IntValue(rec[2]),
             FloatValue(r[5]), FloatValue(r[6]), FloatValue(r[8]),
             FloatValue(r[10]), FloatValue(r[12]), FloatValue(r[14]),
             FloatValue(r[16]), FloatValue(r[18]), FloatValue(r[20]))

\* teams = {}
EmptyDict == [n \in {} |-> 0]

\* teams[name] = value as it would be with teams.setdefault(name, value).
M_DictSet_first(dict, key, value) ==
    [n \in DOMAIN dict \cup {key} |-> IF n \in DOMAIN dict THEN dict[n] ELSE value]

\* teams[name] = value
DictSet(dict, key, value) ==
    [n \in DOMAIN dict \cup {key} |-> IF n = key THEN value ELSE dict[n]]

\* How a call stands: running, returned with a dict, or left by an exception.
Running == [kind |-> "running", exc |-> "", value |-> EmptyDict]
Returned(dict) == [kind |-> "return", exc |-> "", value |-> dict]
Raised(exc) == [kind |-> "raise", exc |-> exc, value |-> EmptyDict]

NoRead == [name |-> "", raised |-> "", value |-> ""]

\* The loop as it would be if an exception of the body returned the dict
\* built so far.
M_create_teams_iter_partial ==
    /\ result = Running
    /\ i <= Len(team_data)
    /\ IF RowParses(team_data[i])
       THEN /\ teams' = DictSet(teams, team_data[i][2], RowTeam(team_data[i]))
            /\ i' = i + 1
            /\ UNCHANGED result
       ELSE /\ result' = Returned(teams)
            /\ UNCHANGED <<i, teams>>
    /\ UNCHANGED <<team_data, recRead>>

\* The loop as it would be if an exception of the body skipped the row.
M_create_teams_iter_lenient ==
    /\ result = Running
    /\ i <= Len(team_data)
    /\ teams' = IF RowParses(team_data[i])
                THEN DictSet(teams, team_data[i][2], RowTeam(team_data[i]))
                ELSE teams
    /\ i' = i + 1
    /\ UNCHANGED <<team_data, result, recRead>>

\* One pass of the for loop of _create_teams.  An exception of the body
\* is caught nowhere: it ends _create_teams and get().
create_teams_iter ==
    /\ result = Running
    /\ i <= Len(team_data)
    /\ IF RowParses(team_data[i])
       THEN /\ teams' = DictSet(teams, team_data[i][2], RowTeam(team_data[i]))
            /\ i' = i + 1
            /\ UNCHANGED result
       ELSE /\ result' = Raised("ValueError")
            /\ UNCHANGED <<i, teams>>
    /\ UNCHANGED <<team_data, recRead>>

\* return teams
create_teams_return ==
    /\ result = Running
    /\ i > Len(team_data)
    /\ result' = Returned(teams)
    /\ UNCHANGED <<team_data, i, teams, recRead>>

\* The caller reads team.record of a Team of the returned dict.
read_record(name) ==
    /\ result.kind = "return"
    /\ recRead = NoRead
    /\ name \in DOMAIN result.value
    /\ recRead' = [name |-> name,
                   raised |-> Team_record(result.value[name]).raised,
                   value |-> Team_record(result.value[name]).value]
    /\ UNCHANGED <<team_data, i, teams, result>>

\* A Team of the returned dict is an ordinary (not frozen) dataclass
\* instance: the caller may assign to its attributes.

VARIABLES
    team,      \* the fields of one Team instance
    nAssign,   \* the number of assignments tried on it
    lastSet    \* the assignment tried last, and the exception it raised

tvars == <<team, nAssign, lastSet>>

FieldNames ==
    {"rank", "name", "conference", "wins", "losses", "efficiency", "offense",
     "defense", "tempo", "luck", "opponent_efficiency", "opponent_offense",
     "opponent_defense", "nonconference_opponent_efficiency"}

\* The names defined with @property; none has a setter.
PropertyNames ==
    {"d", "e", "l", "nc_o_e", "o", "o_d", "o_e", "o_o", "record", "t", "w"}

NoSet == [attr |-> "", raised |-> ""]

\* team.attr = value, for a field of the dataclass.
set_field(attr, value) ==
    /\ nAssign < MaxAssign
    /\ attr \in FieldNames
    /\ team' = [team EXCEPT ![attr] = value]
    /\ nAssign' = nAssign + 1
    /\ lastSet' = [attr |-> attr, raised |-> ""]

\* team.attr = value, for a property: it has no setter, the assignment
\* raises AttributeError and stores nothing.
set_property(attr) ==
    /\ nAssign < MaxAssign
    /\ attr \in PropertyNames
    /\ team' = team
    /\ nAssign' = nAssign + 1
    /\ lastSet' = [attr |-> attr, raised |-> "AttributeError"]

\* ------------------------------------------------------------------------
\* Inputs
\* ------------------------------------------------------------------------

\* A row as KenPomParser keeps it: 21 tokens, the nine statistics each
\* followed by the column the builder ignores.
MkRow(rank, name, rec, stats, glyph) ==
    <<rank, name, "Big Conf", rec, stats[1],
      stats[2], glyph, stats[3], glyph, stats[4], glyph, stats[5], glyph,
      stats[6], glyph, stats[7], glyph, stats[8], glyph, stats[9], glyph>>

Stats1 == <<"28.5", "120.3", "95.1", "68.2", "0.05", "99.0", "110.0", "90.0", "85.0">>
Stats2 == <<"+28.50", "1_20.3", "95.1 ", "68.2", "-.035", "9.9e1", "110", "90.", "85.0">>

\* Rows every token of which int(), float() and the unpackings accept.
GoodRows ==
    {MkRow(rr[1], name, rr[2], sg[1], sg[2]) :
        rr \in {<<"1", "30-4">>, <<" 2", "08-12">>},
        name \in {"Acme U", "Kentucky"},
        sg \in {<<Stats1, "7">>, <<Stats2, "x">>}}

BaseRow == MkRow("1", "Acme U", "30-4", Stats1, "7")

\* The base row with one token replaced by one that int(), float() or the
\* unpacking of the split refuses.
BadRows ==
    {[BaseRow EXCEPT ![bad[1]] = bad[2]] :
        bad \in {<<1, "x">>, <<1, "1,000">>, <<4, "30-4-2">>, <<4, "30">>,
                 <<4, "3x-4">>, <<12, "N/A">>}}

RowSet == GoodRows \cup BadRows

\* Values a caller assigns to a field.
NewFloats == {FloatValue("1.5"), FloatValue("-2")}

FieldValues(attr) ==
    IF attr \in {"rank", "wins", "losses"} THEN {0, 7}
    ELSE IF attr \in {"name", "conference"} THEN {"Duke"}
    ELSE NewFloats

\* ------------------------------------------------------------------------
\* Specifications
\* ------------------------------------------------------------------------

vars == <<pvars, bvars, tvars>>

ParserIdle == ParserInit /\ watch = NoWatch

BuilderIdle ==
    /\ team_data = <<>> /\ i = 1 /\ teams = EmptyDict
    /\ result = Running /\ recRead = NoRead

TeamIdle == team = RowTeam(BaseRow) /\ nAssign = 0 /\ lastSet = NoSet

\* feed(): the tokenizer calls the handlers, in document order.
StartTag == (\E tag \in Tags : handle_starttag(tag)) /\ UNCHANGED <<bvars, tvars>>
EndTag == (\E tag \in Tags : handle_endtag(tag)) /\ UNCHANGED <<bvars, tvars>>
Data == handle_data(Text(nText)) /\ UNCHANGED <<bvars, tvars>>

ParserNext == StartTag \/ EndTag \/ Data

\* KenPomParser fed any document.
InitParser == ParserIdle /\ BuilderIdle /\ TeamIdle

SpecParser == InitParser /\ [][ParserNext]_vars

\* KenPomParser fed any document, with any one of its fragments followed.
InitWatch == ParserInit /\ watch \in 0..(MaxText - 1) /\ BuilderIdle /\ TeamIdle

SpecWatch == InitWatch /\ [][ParserNext]_vars

\* _create_teams called with a list of rows.
Init ==
    /\ ParserIdle
    /\ TeamIdle
    /\ team_data \in UNION {[1..n -> RowSet] : n \in 0..MaxRows}
    /\ i = 1
    /\ teams = EmptyDict
    /\ result = Running
    /\ recRead = NoRead

Iter == create_teams_iter /\ UNCHANGED <<pvars, tvars>>
Return == create_teams_return /\ UNCHANGED <<pvars, tvars>>
ReadRecord ==
    (\E name \in DOMAIN result.value : read_record(name)) /\ UNCHANGED <<pvars, tvars>>

BuilderNext == Iter \/ Return \/ ReadRecord

Spec == Init /\ [][BuilderNext]_vars

\* One Team, built of a row, whose attributes a caller assigns to.
InitTeam ==
    /\ ParserIdle
    /\ BuilderIdle
    /\ team \in {RowTeam(r) : r \in GoodRows}
    /\ nAssign = 0
    /\ lastSet = NoSet

SetField ==
    /\ \E attr \in FieldNames : \E value \in FieldValues(attr) : set_field(attr, value)
    /\ UNCHANGED <<pvars, bvars>>
SetProperty ==
    (\E attr \in PropertyNames : set_property(attr)) /\ UNCHANGED <<pvars, bvars>>

TeamNext == SetField \/ SetProperty

SpecTeam == InitTeam /\ [][TeamNext]_vars

\* ------------------------------------------------------------------------
\* Properties of KenPomParser
\* ------------------------------------------------------------------------

\* The step just taken handled this event.
Handled(kind, tag) == lastEv'.kind = kind /\ lastEv'.tag = tag

\* The token tok is in some row of parser.rows.
Delivered(tok) == \E k \in 1..Len(rows) : Holds(List(rows[k]), tok)

\* C2: a 'tr' row that was opened and is closed with a token count other
\* than 22 (0 tokens included) adds nothing to parser.rows and raises no
\* error.
C2_WrongWidthDropped ==
    [][(Handled("endtag", "tr") /\ lastEv'.found >= 0 /\ lastEv'.found # RowWidth)
         => (rows' = rows /\ status' = "ok")]_vars

\* A row of 21 tokens has just been closed and dropped, after a row of 22
\* tokens was kept.
C2_Witness ==
    /\ lastEv = [kind |-> "endtag", tag |-> "tr", found |-> RowWidth - 1]
    /\ Len(rows) = 1
    /\ status = "ok"

\* C8: a 'tr' close while no row buffer is open raises no error and leaves
\* parser.rows and the absent buffer as they were; after every 'tr' close
\* the buffer is absent.
C8_CloseWithoutOpenIsQuiet ==
    [][Handled("endtag", "tr")
         => /\ status' = "ok"
            /\ row' = None
            /\ lastEv'.found = -1 => rows' = rows]_vars

\* C9: every element of parser.rows has 21 tokens and is tokens 2 to 22, in
\* order, of a buffer that held exactly 22 tokens when its 'tr' was closed;
\* the rows are in the order of their closes, and an element once appended
\* is never changed or removed.
C9_RowsAreClosedBuffers ==
    /\ [](\A k \in 1..Len(rows) : Len(rows[k]) = RowWidth - 1)
    /\ [][rows' # rows
            => /\ Handled("endtag", "tr")
               /\ row.isList
               /\ Len(row.items) = RowWidth
               /\ rows' = Append(rows, SubSeq(row.items, 2, RowWidth))]_vars

\* Two rows have been kept, the earlier closed one first.
C9_Witness ==
    /\ Len(rows) = 2
    /\ rows[1][RowWidth - 1] < rows[2][1]

\* C10: a 'tr' open always replaces the buffer by a new empty one, and the
\* tokens the replaced buffer held never reach parser.rows; the tokens of a
\* row that is not closed are not delivered; a text event while no buffer is
\* open changes nothing; none of these raises an error.
C10_ReplacedBufferIsLost ==
    /\ [](lost => ~Delivered(watch))
    /\ [](\A k \in 1..Len(row.items) : ~Delivered(row.items[k]))
    /\ [][Handled("starttag", "tr")
            => (row' = List(<<>>) /\ rows' = rows /\ status' = "ok")]_vars
    /\ [][(Handled("data", "") /\ lastEv'.found = -1)
            => (row' = row /\ rows' = rows /\ status' = "ok")]_vars
    /\ [][rows' # rows => Handled("endtag", "tr")]_vars

\* The followed token was in a buffer that a 'tr' open replaced, and a row
\* of later tokens has been delivered since.
C10_Witness ==
    /\ lost
    /\ Len(rows) >= 1
    /\ rows[Len(rows)][1] > watch

\* ------------------------------------------------------------------------
\* Properties of _create_teams and Team
\* ------------------------------------------------------------------------

\* The token at a position of a row, positions counted from 0.
Tok(r, pos) == r[pos + 1]

\* The number of hyphens in a token.
RECURSIVE Hyphens(_)
Hyphens(s) ==
    IF Len(s) = 0 THEN 0
    ELSE (IF Head(s) = "-" THEN 1 ELSE 0) + Hyphens(Tail(s))

\* The parts of a token before and after its first hyphen.
BeforeHyphen(s) == SubSeq(s, 1, Find(s, "-") - 1)
AfterHyphen(s) == SubSeq(s, Find(s, "-") + 1, Len(s))

\* The win-loss token is two integer strings around one hyphen.
WinLossOK(s) ==
    /\ Hyphens(s) = 1
    /\ IntOK(BeforeHyphen(s))
    /\ IntOK(AfterHyphen(s))

StatPositions == {4, 5, 7, 9, 11, 13, 15, 17, 19}
IgnoredPositions == {6, 8, 10, 12, 14, 16, 18, 20}

\* A row of 21 tokens whose win-loss, rank and statistic tokens are all
\* well formed.
WellFormed(r) ==
    /\ WinLossOK(Tok(r, 3))
    /\ IntOK(Tok(r, 0))
    /\ \A pos \in StatPositions : FloatOK(Tok(r, pos))

\* The well-formed rows among the rows of the inputs, worked out once.
WellFormedRows == {r \in RowSet : WellFormed(r)}

\* The Team that the positional layout prescribes for a well-formed row.
ExpectedTeam(r) ==
    [rank |-> IntValue(Tok(r, 0)),
     name |-> Tok(r, 1),
     conference |-> Tok(r, 2),
     wins |-> IntValue(BeforeHyphen(Tok(r, 3))),
     losses |-> IntValue(AfterHyphen(Tok(r, 3))),
     efficiency |-> FloatValue(Tok(r, 4)),
     offense |-> FloatValue(Tok(r, 5)),
     defense |-> FloatValue(Tok(r, 7)),
     tempo |-> FloatValue(Tok(r, 9)),
     luck |-> FloatValue(Tok(r, 11)),
     opponent_efficiency |-> FloatValue(Tok(r, 13)),
     opponent_offense |-> FloatValue(Tok(r, 15)),
     opponent_defense |-> FloatValue(Tok(r, 17)),
     nonconference_opponent_efficiency |-> FloatValue(Tok(r, 19))]

\* The row with other tokens at the ignored positions.
Reglyphed(r, glyph) ==
    [k \in 1..Len(r) |-> IF (k - 1) \in IgnoredPositions THEN glyph ELSE r[k]]

\* Row k is the last row among the first n that has its name token.
LastOfName(k, n) == \A m \in (k + 1)..n : Tok(team_data[m], 1) # Tok(team_data[k], 1)

\* The names of the first n rows.
NamesUpTo(n) == {Tok(team_data[k], 1) : k \in 1..n}

\* Some row of team_data is not well formed.
SomeRowBad == \E k \in 1..Len(team_data) : team_data[k] \notin WellFormedRows

\* C1: the Team stored under a parsed row's name token takes rank, name,
\* conference and win-loss from positions 0-3, efficiency from 4, and the
\* other statistics from 5, 7, 9, 11, 13, 15, 17, 19; the tokens at 6, 8, ...,
\* 20 influence no field.
C1_FieldsByPosition ==
    \A k \in 1..(i - 1) :
        LastOfName(k, i - 1)
            => /\ teams[Tok(team_data[k], 1)] = ExpectedTeam(team_data[k])
               /\ \A glyph \in {"", "99"} :
                    RowTeam(Reglyphed(team_data[k], glyph)) = teams[Tok(team_data[k], 1)]

\* Two rows of different names, with different tokens at the ignored
\* positions, have been stored.
C1_Witness ==
    /\ i = 3
    /\ Tok(team_data[1], 1) # Tok(team_data[2], 1)
    /\ Tok(team_data[1], 6) = "7"
    /\ Tok(team_data[2], 6) = "x"

\* C3: if any row has a win-loss token that is not two integer strings
\* around one hyphen, or a rank or statistic token that is not numeric, the
\* call ends in an error and no mapping is returned, not even one of the
\* rows before the bad one.
C3_FailFast ==
    SomeRowBad
        => /\ result.kind # "return"
           /\ result # Running => result = Raised("ValueError")
           /\ \A k \in 1..(i - 1) : team_data[k] \in WellFormedRows

\* The call has ended in the error at its second row, the first row stored.
C3_Witness ==
    /\ result.kind = "raise"
    /\ i = 2
    /\ DOMAIN teams = {Tok(team_data[1], 1)}

\* C4: when rows share a name token the returned mapping has one entry for
\* the name, with the values of the last such row; the mapping has as many
\* keys as there are distinct name tokens.
C4_LastRowOfNameWins ==
    result.kind = "return"
        => /\ DOMAIN result.value = NamesUpTo(Len(team_data))
           /\ Cardinality(DOMAIN result.value) = Cardinality(NamesUpTo(Len(team_data)))
           /\ \A k \in 1..Len(team_data) :
                LastOfName(k, Len(team_data))
                    => result.value[Tok(team_data[k], 1)] = RowTeam(team_data[k])

\* Two rows of one name and different values have been returned as one entry.
C4_Witness ==
    /\ result.kind = "return"
    /\ Len(team_data) = 2
    /\ Tok(team_data[1], 1) = Tok(team_data[2], 1)
    /\ RowTeam(team_data[1]) # RowTeam(team_data[2])
    /\ Cardinality(DOMAIN result.value) = 1

\* The win-loss token of the row that the entry of a name comes from.
WinLossOf(name) ==
    LET k == CHOOSE k \in 1..Len(team_data) :
                 Tok(team_data[k], 1) = name /\ LastOfName(k, Len(team_data))
    IN  Tok(team_data[k], 3)

\* C5: reading the record field of the Team of a parsed row raises no error
\* and gives the row's win-loss token.
C5_RecordIsWinLossToken ==
    recRead # NoRead
        => /\ recRead.raised = ""
           /\ recRead.value = WinLossOf(recRead.name)

\* C6: after any sequence of field assignments, each short-name alias gives
\* the current value of its long-name field.
C6_AliasConsistency ==
    /\ Team_w(team) = team.wins
    /\ Team_l(team) = team.losses
    /\ Team_e(team) = team.efficiency
    /\ Team_o(team) = team.offense
    /\ Team_d(team) = team.defense
    /\ Team_t(team) = team.tempo
    /\ Team_o_e(team) = team.opponent_efficiency
    /\ Team_o_o(team) = team.opponent_offense
    /\ Team_o_d(team) = team.opponent_defense
    /\ Team_nc_o_e(team) = team.nonconference_opponent_efficiency

\* opponent_defense has just been assigned a value that no other field holds.
C6_Witness ==
    /\ nAssign = MaxAssign
    /\ lastSet = [attr |-> "opponent_defense", raised |-> ""]
    /\ team.opponent_defense = FloatValue("-2")
    /\ team.opponent_offense # team.opponent_defense

\* The mapping of the well-formed rows among the first n, the others skipped.
RECURSIVE ParsedRows(_)
ParsedRows(n) ==
    IF n = 0 THEN EmptyDict
    ELSE LET before == ParsedRows(n - 1)
             expected == ExpectedTeam(team_data[n])
         IN  IF team_data[n] \in WellFormedRows
             THEN [name \in DOMAIN before \cup {Tok(team_data[n], 1)} |->
                     IF name = Tok(team_data[n], 1) THEN expected ELSE before[name]]
             ELSE before

\* C7 as stated: a row that fails to parse is dropped, the rows after it
\* are processed, and the returned mapping holds exactly the rows that parsed.
C7_LenientAsStated ==
    result # Running => result = Returned(ParsedRows(Len(team_data)))

\* C7 as amended: no policy can be chosen; the call ends with the error at
\* the first row that fails to parse, the rows after it are not processed
\* and nothing is returned; a mapping is returned only when every row
\* parsed, and then it holds every row.
C7_NoLenientPolicy ==
    /\ result.kind = "raise"
         => /\ i <= Len(team_data)
            /\ team_data[i] \notin WellFormedRows
            /\ teams = ParsedRows(i - 1)
            /\ result.value = EmptyDict
    /\ result.kind = "return"
         => /\ i = Len(team_data) + 1
            /\ result.value = ParsedRows(Len(team_data))
            /\ ~SomeRowBad
    /\ result.kind \in {"running", "raise", "return"}

\* The call has ended at a first row that fails to parse, and the
\* well-formed row after it was not processed.
C7_Witness ==
    /\ result.kind = "raise"
    /\ i = 1
    /\ Len(team_data) = 2
    /\ team_data[2] \in WellFormedRows
    /\ teams = EmptyDict

====
